---- MODULE Spec2Model ----
(***************************************************************************)
(* A small-step model of the tree-walking evaluator of src/src/main.rs.    *)
(*                                                                         *)
(* The Rust call stack of eval_expr / apply_function activations is the    *)
(* sequence `stack`; every Env value that is alive (main's env and the     *)
(* lambda_env local of every running closure application) is an element of *)
(* `envs`.  One action is one step of one match arm of eval_expr or        *)
(* apply_function.                                                         *)
(***************************************************************************)
EXTENDS Integers, Sequences, FiniteSets, TLC

VARIABLES prog, stack, envs, ret, out, status, evlog, births, completed

vars == <<prog, stack, envs, ret, out, status, evlog, births, completed>>

(***************************************************************************)
(* Bounds of the modelled programs.                                         *)
(***************************************************************************)
MaxNum == 1

Nums == 0..MaxNum

(***************************************************************************)
(* enum Expr (lines 6-18).                                                 *)
(***************************************************************************)
Number(n) == [k |-> "Number", n |-> n]

String(s) == [k |-> "String", s |-> s]

Identifier(s) == [k |-> "Identifier", s |-> s]

Application(a) == [k |-> "Application", a |-> a]

Cond(a) == [k |-> "Cond", a |-> a]

Block(a) == [k |-> "Block", a |-> a]

Clause(a) == [k |-> "Clause", a |-> a]

Parameters(a) == [k |-> "Parameters", a |-> a]

Lambda(a) == [k |-> "Lambda", a |-> a]

Let(name, value, body) == [k |-> "Let", name |-> name, value |-> value, body |-> body]

Define(name, value) == [k |-> "Define", name |-> name, value |-> value]

(***************************************************************************)
(* enum ResultValue (lines 21-27).  A Func is named by its table key; its  *)
(* native operation is NativeOp below.                                     *)
(***************************************************************************)
NumberV(n) == [t |-> "Number", n |-> n]

BoolV(b) == [t |-> "Bool", b |-> b]

StringV(s) == [t |-> "String", s |-> s]

FuncV(arity, name) == [t |-> "Func", arity |-> arity, name |-> name]

LambdaV(params, body, env) == [t |-> "Lambda", params |-> params, body |-> body, env |-> env]

(***************************************************************************)
(* impl Display for ResultValue (lines 29-39).                             *)
(***************************************************************************)
Render(v) ==
    CASE v.t = "Number" -> ToString(v.n)
      [] v.t = "Bool"   -> IF v.b THEN "true" ELSE "false"
      [] v.t = "String" -> v.s
      [] v.t = "Func"   -> "<function>"
      [] v.t = "Lambda" -> "<lambda " \o ToString(v.params) \o " " \o ToString(v.body) \o ">"

(***************************************************************************)
(* struct Env (lines 42-46).  `parent` is None in every Env the program    *)
(* builds (with_parent is never called) and `builtins` holds the same      *)
(* table in every Env, so an Env is modelled by its `vars` map.            *)
(***************************************************************************)
EmptyVars == [n \in {} |-> NumberV(0)]

\* a map insert that keeps the old value of a key already present
InsertIfAbsent(vars_, name, value) ==
    [n \in (DOMAIN vars_) \cup {name} |-> IF n \in DOMAIN vars_ THEN vars_[n] ELSE value]

\* Env::insert_vars (lines 202-204)
InsertVars(vars_, name, value) ==
    [n \in (DOMAIN vars_) \cup {name} |-> IF n = name THEN value ELSE vars_[n]]

\* Env::initialize_vars (lines 71-75)
InitializeVars ==
    InsertVars(InsertVars(InsertVars(EmptyVars, "x", NumberV(10)), "v", NumberV(5)), "i", NumberV(1))

\* Env::get_vars (lines 192-200) followed by the Identifier arm's fallback
\* (lines 218-221): a clone of the bound value, or the name as a string.
LookupOrName(vars_, name) ==
    IF name \in DOMAIN vars_ THEN vars_[name] ELSE StringV(name)

\* Env::initialize_builtins (lines 77-190): name -> declared arity
BuiltinArity ==
    [n \in {"add", "sub", "mul", "div", "pow", "=", "<", ">", ">=", "<="} |-> 2]
    @@ [n \in {"zero?", "print"} |-> 1]

BuiltinNames == DOMAIN BuiltinArity

\* env.builtins[&name].clone() (line 214)
Builtin(name) == FuncV(BuiltinArity[name], name)

(***************************************************************************)
(* Result<ResultValue, String>, and the two other ways a pending call can  *)
(* stand: not yet returned, or a panic raised inside it.                   *)
(***************************************************************************)
NoRet == [tag |-> "none"]

Ok(v) == [tag |-> "ok", v |-> v]

Err(e) == [tag |-> "err", e |-> e]

Panic(why) == [tag |-> "panic", why |-> why]

\* format!("Expected {} arguments", n) (lines 296, 305)
ExpectedMsg(n) == "Expected " \o ToString(n) \o " arguments"

(***************************************************************************)
(* The native operations of the builtin table (lines 78-189).  Operands    *)
(* of the modelled programs stay far inside i64, where +, - and * are       *)
(* exact.                                                                  *)
(***************************************************************************)
Abs(a) == IF a < 0 THEN -a ELSE a

\* i64 `/` truncates toward zero (line 114)
TruncDiv(a, b) ==
    IF (a >= 0) = (b > 0) THEN Abs(a) \div Abs(b) ELSE -(Abs(a) \div Abs(b))

RECURSIVE PowNat(_, _)
PowNat(a, b) == IF b = 0 THEN 1 ELSE a * PowNat(a, b - 1)

\* a.pow(b as u32) (line 125): a negative b casts to 2^32 + b, an exponent
\* of b's parity that overflows i64 for every base but -1, 0 and 1
PowOverflows(a, b) == b < 0 /\ a \notin {-1, 0, 1}

Pow(a, b) ==
    IF b >= 0 THEN PowNat(a, b)
    ELSE IF a = -1 THEN (IF b % 2 = 0 THEN 1 ELSE -1)
    ELSE a

AllNumbers(args) == \A j \in 1..Len(args) : args[j].t = "Number"

NativeOp(name, args) ==
    IF Len(args) # BuiltinArity[name]
    THEN Err(IF BuiltinArity[name] = 1 THEN "Expected exactly 1 argument"
                                       ELSE "Expected exactly 2 arguments")
    ELSE IF name = "print" THEN Ok(NumberV(0))
    ELSE IF ~AllNumbers(args)
    THEN Err(IF BuiltinArity[name] = 1 THEN "Invalid argument" ELSE "Invalid arguments")
    ELSE CASE name = "add" -> Ok(NumberV(args[1].n + args[2].n))
           [] name = "sub" -> Ok(NumberV(args[1].n - args[2].n))
           [] name = "mul" -> Ok(NumberV(args[1].n * args[2].n))
           [] name = "div" -> IF args[2].n = 0 THEN Err("Division by zero")
                              ELSE Ok(NumberV(TruncDiv(args[1].n, args[2].n)))
           [] name = "pow" -> Ok(NumberV(Pow(args[1].n, args[2].n)))
           [] name = "zero?" -> Ok(BoolV(args[1].n = 0))
           [] name = "=" -> Ok(BoolV(args[1].n = args[2].n))
           [] name = "<" -> Ok(BoolV(args[1].n < args[2].n))
           [] name = ">" -> Ok(BoolV(args[1].n > args[2].n))
           [] name = ">=" -> Ok(BoolV(args[1].n >= args[2].n))
           [] name = "<=" -> Ok(BoolV(args[1].n <= args[2].n))

\* What a call of the native operation can end in.  An overflowing pow
\* panics in a build with overflow checks and wraps without them; the wrapped
\* power of an even base is 0 (for an odd base it is not computed here, and
\* no modelled program raises an odd base to a negative exponent).
NativeOutcomes(name, args) ==
    IF name = "pow" /\ Len(args) = 2 /\ AllNumbers(args) /\ PowOverflows(args[1].n, args[2].n)
    THEN {Panic("attempt to multiply with overflow")}
         \cup (IF args[1].n % 2 = 0 THEN {Ok(NumberV(0))} ELSE {})
    ELSE {NativeOp(name, args)}

\* println!("{}", args[0]) of print (line 187)
NativePrinted(name, args) ==
    IF name = "print" /\ Len(args) = 1 THEN <<Render(args[1])>> ELSE <<>>

(***************************************************************************)
(* The decisions of eval_expr and apply_function the actions below use.    *)
(***************************************************************************)
\* a dispatch on the type of the callee value instead of its rendering
DispatchesFuncOnly(func) == func.t = "Func"

\* line 213: the callee names a builtin when its rendering is a table key
DispatchesToBuiltin(func) == Render(func) \in BuiltinNames

\* lines 213-216: the value handed to apply_function
Callee(func) == IF DispatchesToBuiltin(func) THEN Builtin(Render(func)) ELSE func

\* an arity check that lets surplus arguments through
ArityTooFew(nargs, arity) == nargs < arity

\* lines 295, 304: args.len() != arity
ArityMismatch(nargs, arity) == nargs # arity

\* dynamic scope: the call starts from the caller's variables
CallEnvOfCaller(clo, callerVars) == callerVars

\* line 303: lambda_env is the Env moved out of the closure value
CallEnv(clo, callerVars) == clo.env

\* the arguments evaluated in the caller's env, as for a builtin
ArgEnvOfCaller(callerIdx, lambdaIdx) == callerIdx

\* line 308: eval_expr(arg, &mut lambda_env)
ArgEnv(callerIdx, lambdaIdx) == lambdaIdx

\* the body evaluated in the caller's env
BodyEnvOfCaller(callerIdx, lambdaIdx) == callerIdx

\* line 311: eval_expr(*body, &mut lambda_env)
BodyEnv(callerIdx, lambdaIdx) == lambdaIdx

\* a closure shared by reference: the variable the callee was read from keeps
\* the lambda_env the call ended with
CallerVarsWithCallKept(callerVars, calleeExpr, clo, lambdaVars) ==
    IF calleeExpr.k = "Identifier" /\ calleeExpr.s \in DOMAIN callerVars
    THEN InsertVars(callerVars, calleeExpr.s, LambdaV(clo.params, clo.body, lambdaVars))
    ELSE callerVars

\* lines 193, 292, 303: the closure applied is a clone taken by value, and
\* its lambda_env is dropped at return: the caller's variables stay as they are
CallerVarsAfterCall(callerVars, calleeExpr, clo, lambdaVars) == callerVars

\* a condition that counts only when it is the boolean true
IsTrueBool(v) == v = BoolV(TRUE)

\* line 237: cond.to_string() == "true"
IsTrue(v) == Render(v) = "true"

\* line 267: env.clone()
Capture(vars_) == vars_

\* lines 276, 286: env.insert_vars(name, value) on the env eval_expr was given
BindEnv(envIdx) == envIdx

(***************************************************************************)
(* The call stack.  A frame is an activation of eval_expr that has not yet *)
(* started (op = "eval") or is waiting for the call above it to return.    *)
(* `env` is the index in envs of the &mut Env the activation was given.    *)
(***************************************************************************)
Top == stack[Len(stack)]

Pop == SubSeq(stack, 1, Len(stack) - 1)

ReplaceTop(f) == Append(Pop, f)

EvalFrame(e, env) == [op |-> "eval", e |-> e, env |-> env]

\* the top activation waits for f's result, then for the evaluation of e in env
Call(f, e, env) == Append(Append(Pop, f), EvalFrame(e, env))

Running == status = "running" /\ stack # <<>>

Evaluating(kind) == Running /\ ret = NoRet /\ Top.op = "eval" /\ Top.e.k = kind

Returned(op) == Running /\ ret.tag = "ok" /\ Top.op = op

\* history: every expression whose evaluation started, with its stack depth
Logged == evlog' = Append(evlog, [d |-> Len(stack), e |-> Top.e])

DropLast(s) == SubSeq(s, 1, Len(s) - 1)

OwnsEnv(f) == f.op \in {"lambda_args", "lambda_body"}

(***************************************************************************)
(* main (lines 330-338): Env::new(), decode, eval_expr.                    *)
(***************************************************************************)
Start(p) ==
    /\ prog = p
    /\ stack = <<EvalFrame(p, 1)>>
    /\ envs = <<InitializeVars>>
    /\ ret = NoRet
    /\ out = <<>>
    /\ status = "running"
    /\ evlog = <<>>
    /\ births = {}
    /\ completed = <<>>

\* Expr::Number (line 209)
EvalNumber ==
    /\ Evaluating("Number")
    /\ Logged
    /\ stack' = Pop
    /\ ret' = Ok(NumberV(Top.e.n))
    /\ UNCHANGED <<prog, envs, out, status, births, completed>>

\* Expr::String (line 210)
EvalString ==
    /\ Evaluating("String")
    /\ Logged
    /\ stack' = Pop
    /\ ret' = Ok(StringV(Top.e.s))
    /\ UNCHANGED <<prog, envs, out, status, births, completed>>

\* Expr::Identifier (lines 218-221)
EvalIdentifier ==
    /\ Evaluating("Identifier")
    /\ Logged
    /\ stack' = Pop
    /\ ret' = Ok(LookupOrName(envs[Top.env], Top.e.s))
    /\ UNCHANGED <<prog, envs, out, status, births, completed>>

\* Expr::Application, line 212: args.remove(0) panics on an empty Vec;
\* otherwise the callee expression is evaluated first
EvalApplication ==
    /\ Evaluating("Application")
    /\ Logged
    /\ IF Top.e.a = <<>>
       THEN /\ ret' = Panic("removal index (is 0) should be < len (is 0)")
            /\ status' = "panicked"
            /\ stack' = stack
       ELSE /\ stack' = Call([op |-> "app_callee", args |-> Tail(Top.e.a),
                              calleeExpr |-> Head(Top.e.a), env |-> Top.env],
                             Head(Top.e.a), Top.env)
            /\ UNCHANGED <<ret, status>>
    /\ UNCHANGED <<prog, envs, out, births, completed>>

\* The frame of a closure application (lines 303-312), entered with the
\* arity already checked.  History: given, the argument expressions of the
\* call; bound, the parameters bound so far with their values; snap, the Envs
\* alive when the call began; env0, the lambda_env it began with.
LambdaFrame(fr, clo, lambdaIdx, params, args) ==
    [op |-> IF params = <<>> THEN "lambda_body" ELSE "lambda_args",
     params |-> params, args |-> args, clo |-> clo,
     calleeExpr |-> fr.calleeExpr, caller |-> fr.env, env |-> lambdaIdx,
     given |-> fr.args, bound |-> <<>>,
     snap |-> envs, env0 |-> CallEnv(clo, envs[fr.env])]

\* history of a closure application that was left, by a value or an error
Left(fr, how, after) ==
    [clo |-> fr.clo, calleeExpr |-> fr.calleeExpr, caller |-> fr.caller, env0 |-> fr.env0,
     final |-> envs[fr.env], snap |-> fr.snap, after |-> after, how |-> how]

\* Expr::Application, lines 213-216, and the head of apply_function
\* (lines 292-306, 326): dispatch on the callee value, then the arity check
Apply ==
    /\ Returned("app_callee")
    /\ LET fr == Top
           f == Callee(ret.v)
           lambdaIdx == Len(envs) + 1
       IN CASE f.t = "Func" ->
                 IF ArityMismatch(Len(fr.args), f.arity)
                 THEN /\ ret' = Err(ExpectedMsg(f.arity))
                      /\ UNCHANGED <<stack, envs>>
                 ELSE /\ stack' = Call([op |-> "func_args", name |-> f.name,
                                        rest |-> Tail(fr.args), vals |-> <<>>, env |-> fr.env,
                                        func |-> ret.v],
                                       Head(fr.args), fr.env)
                      /\ ret' = NoRet
                      /\ UNCHANGED envs
            [] f.t = "Lambda" ->
                 IF ArityMismatch(Len(fr.args), Len(f.params))
                 THEN /\ ret' = Err(ExpectedMsg(Len(f.params)))
                      /\ UNCHANGED <<stack, envs>>
                 ELSE /\ envs' = Append(envs, CallEnv(f, envs[fr.env]))
                      /\ ret' = NoRet
                      /\ stack' =
                           IF f.params = <<>>
                           THEN Call(LambdaFrame(fr, f, lambdaIdx, <<>>, <<>>),
                                     f.body, BodyEnv(fr.env, lambdaIdx))
                           ELSE Call(LambdaFrame(fr, f, lambdaIdx, f.params, Tail(fr.args)),
                                     Head(fr.args), ArgEnv(fr.env, lambdaIdx))
            [] OTHER ->
                 /\ ret' = Err("Not a function")
                 /\ UNCHANGED <<stack, envs>>
    /\ UNCHANGED <<prog, out, status, evlog, births, completed>>

\* apply_function, Func arm (lines 298-299): the arguments in order in the
\* caller's env, then the native operation
FuncArg ==
    /\ Returned("func_args")
    /\ LET fr == Top
           vals == Append(fr.vals, ret.v)
       IN IF fr.rest = <<>>
          THEN \E r \in NativeOutcomes(fr.name, vals) :
                  /\ stack' = IF r.tag = "panic" THEN stack ELSE Pop
                  /\ ret' = r
                  /\ out' = out \o NativePrinted(fr.name, vals)
                  /\ status' = IF r.tag = "panic" THEN "panicked" ELSE status
          ELSE /\ stack' = Call([fr EXCEPT !.rest = Tail(fr.rest), !.vals = vals],
                                Head(fr.rest), fr.env)
               /\ ret' = NoRet
               /\ UNCHANGED <<out, status>>
    /\ UNCHANGED <<prog, envs, evlog, births, completed>>

\* apply_function, Lambda arm, the loop of lines 307-310 and line 311
LambdaArg ==
    /\ Returned("lambda_args")
    /\ LET fr == Top
           rest == Tail(fr.params)
           bound == Append(fr.bound, [p |-> Head(fr.params), v |-> ret.v])
       IN /\ envs' = [envs EXCEPT ![fr.env] = InsertVars(envs[fr.env], Head(fr.params), ret.v)]
          /\ stack' =
               IF rest = <<>>
               THEN Call([fr EXCEPT !.op = "lambda_body", !.params = <<>>, !.bound = bound],
                         fr.clo.body, BodyEnv(fr.caller, fr.env))
               ELSE Call([fr EXCEPT !.params = rest, !.args = Tail(fr.args), !.bound = bound],
                         Head(fr.args), ArgEnv(fr.caller, fr.env))
    /\ ret' = NoRet
    /\ UNCHANGED <<prog, out, status, evlog, births, completed>>

\* apply_function returns the body's value (line 311-312); lambda_env is dropped
LambdaReturn ==
    /\ Returned("lambda_body")
    /\ stack' = Pop
    /\ envs' = [DropLast(envs) EXCEPT ![Top.caller] =
                   CallerVarsAfterCall(envs[Top.caller], Top.calleeExpr, Top.clo, envs[Top.env])]
    /\ completed' = Append(completed, Left(Top, "value", envs'))
    /\ UNCHANGED <<prog, ret, out, status, evlog, births>>

\* Expr::Block (lines 222-228)
EvalBlock ==
    /\ Evaluating("Block")
    /\ Logged
    /\ IF Top.e.a = <<>>
       THEN /\ stack' = Pop
            /\ ret' = Ok(NumberV(0))
       ELSE /\ stack' = Call([op |-> "block", rest |-> Tail(Top.e.a), env |-> Top.env],
                             Head(Top.e.a), Top.env)
            /\ ret' = NoRet
    /\ UNCHANGED <<prog, envs, out, status, births, completed>>

\* Expr::Block, the loop of lines 224-227 after a child returned
BlockNext ==
    /\ Returned("block")
    /\ IF Top.rest = <<>>
       THEN /\ stack' = Pop
            /\ ret' = ret
       ELSE /\ stack' = Call([Top EXCEPT !.rest = Tail(Top.rest)], Head(Top.rest), Top.env)
            /\ ret' = NoRet
    /\ UNCHANGED <<prog, envs, out, status, evlog, births, completed>>

\* The activation of a Cond.  n counts the clauses already passed over;
\* rends and log0 are history: the renderings of the conditions evaluated so
\* far, and the length of evlog when the Cond began.
CondFrame(op, all, n, rends, log0, env) ==
    [op |-> op, all |-> all, n |-> n, rends |-> rends, log0 |-> log0, env |-> env]

\* Expr::Cond, one turn of the loop of lines 230-246 from clause n + 1 on:
\* the stack and the result it leaves
CondLoop(base, all, n, rends, log0, env) ==
    IF n = Len(all)
    THEN [stack |-> Append(base, CondFrame("cond_end", all, n, rends, log0, env)),
          ret |-> Err("No true clause")]
    ELSE IF all[n + 1].k # "Clause"
    THEN [stack |-> Append(base, CondFrame("cond_end", all, n, rends, log0, env)),
          ret |-> Err("Invalid clause")]
    ELSE IF Len(all[n + 1].a) # 2
    THEN [stack |-> Append(base, CondFrame("cond_end", all, n, rends, log0, env)),
          ret |-> Err("Each clause must have exactly 2 expressions")]
    ELSE [stack |-> Append(Append(base, CondFrame("cond_test", all, n, rends, log0, env)),
                           EvalFrame(all[n + 1].a[1], env)),
          ret |-> NoRet]

\* Expr::Cond (lines 229-236)
EvalCond ==
    /\ Evaluating("Cond")
    /\ Logged
    /\ LET nxt == CondLoop(Pop, Top.e.a, 0, <<>>, Len(evlog) + 1, Top.env)
       IN /\ stack' = nxt.stack
          /\ ret' = nxt.ret
    /\ UNCHANGED <<prog, envs, out, status, births, completed>>

\* Expr::Cond (lines 237-246) after a condition returned
CondTest ==
    /\ Returned("cond_test")
    /\ LET fr == Top
           rends == Append(fr.rends, Render(ret.v))
           nxt == CondLoop(Pop, fr.all, fr.n + 1, rends, fr.log0, fr.env)
       IN IF IsTrue(ret.v)
          THEN /\ stack' = Call(CondFrame("cond_conseq", fr.all, fr.n, rends, fr.log0, fr.env),
                                fr.all[fr.n + 1].a[2], fr.env)
               /\ ret' = NoRet
          ELSE /\ stack' = nxt.stack
               /\ ret' = nxt.ret
    /\ UNCHANGED <<prog, envs, out, status, evlog, births, completed>>

\* Expr::Cond, line 238: the consequence's result is the Cond's
CondReturn ==
    /\ Returned("cond_conseq")
    /\ stack' = Pop
    /\ UNCHANGED <<prog, envs, ret, out, status, evlog, births, completed>>

\* Expr::Clause (line 248)
EvalClause ==
    /\ Evaluating("Clause")
    /\ Logged
    /\ stack' = Pop
    /\ ret' = Err("Invalid clause not wrapped in a cond")
    /\ UNCHANGED <<prog, envs, out, status, births, completed>>

\* Expr::Parameters (line 249)
EvalParameters ==
    /\ Evaluating("Parameters")
    /\ Logged
    /\ stack' = Pop
    /\ ret' = Err("Invalid parameters not wrapped in a lambda")
    /\ UNCHANGED <<prog, envs, out, status, births, completed>>

\* Expr::Lambda, lines 256-266: the parameter names, or the error
ParamNames(params) ==
    IF params.k # "Parameters" THEN Err("Invalid parameters")
    ELSE IF \E j \in 1..Len(params.a) : params.a[j].k # "Identifier"
    THEN Err("Invalid parameter")
    ELSE Ok([j \in 1..Len(params.a) |-> params.a[j].s])

\* Expr::Lambda (lines 250-268)
EvalLambda ==
    /\ Evaluating("Lambda")
    /\ Logged
    /\ stack' = Pop
    /\ LET a == Top.e.a
       IN IF Len(a) # 2
          THEN /\ ret' = Err("Lambda must have exactly 2 expressions")
               /\ UNCHANGED births
          ELSE IF ParamNames(a[1]).tag = "err"
          THEN /\ ret' = ParamNames(a[1])
               /\ UNCHANGED births
          ELSE /\ ret' = Ok(LambdaV(ParamNames(a[1]).v, a[2], Capture(envs[Top.env])))
               /\ births' = births \cup {[params |-> ParamNames(a[1]).v, body |-> a[2],
                                          env |-> envs[Top.env]]}
    /\ UNCHANGED <<prog, envs, out, status, completed>>

\* Expr::Let (lines 269-275)
EvalLet ==
    /\ Evaluating("Let")
    /\ Logged
    /\ IF Top.e.name.k # "Identifier"
       THEN /\ stack' = Pop
            /\ ret' = Err("Invalid variable name")
       ELSE /\ stack' = Call([op |-> "let_value", name |-> Top.e.name.s, body |-> Top.e.body,
                              env |-> Top.env],
                             Top.e.value, Top.env)
            /\ ret' = NoRet
    /\ UNCHANGED <<prog, envs, out, status, births, completed>>

\* Expr::Let (lines 276-277): bind in the env given, then the body in it
LetBind ==
    /\ Returned("let_value")
    /\ envs' = [envs EXCEPT ![BindEnv(Top.env)] = InsertVars(envs[BindEnv(Top.env)], Top.name, ret.v)]
    /\ stack' = Call([op |-> "let_body", name |-> Top.name, env |-> Top.env], Top.body, Top.env)
    /\ ret' = NoRet
    /\ UNCHANGED <<prog, out, status, evlog, births, completed>>

\* Expr::Let, line 277: the body's result is the Let's
LetReturn ==
    /\ Returned("let_body")
    /\ stack' = Pop
    /\ UNCHANGED <<prog, envs, ret, out, status, evlog, births, completed>>

\* Expr::Define (lines 279-285)
EvalDefine ==
    /\ Evaluating("Define")
    /\ Logged
    /\ IF Top.e.name.k # "Identifier"
       THEN /\ stack' = Pop
            /\ ret' = Err("Invalid variable name")
       ELSE /\ stack' = Call([op |-> "define_value", name |-> Top.e.name.s, env |-> Top.env],
                             Top.e.value, Top.env)
            /\ ret' = NoRet
    /\ UNCHANGED <<prog, envs, out, status, births, completed>>

\* Expr::Define (lines 286-287)
DefineBind ==
    /\ Returned("define_value")
    /\ envs' = [envs EXCEPT ![BindEnv(Top.env)] = InsertVars(envs[BindEnv(Top.env)], Top.name, ret.v)]
    /\ stack' = Pop
    /\ ret' = Ok(NumberV(0))
    /\ UNCHANGED <<prog, out, status, evlog, births, completed>>

\* `?` and `return Err(..)`: an error leaves one activation; a closure
\* application that is left drops its lambda_env
Unwind ==
    /\ Running
    /\ ret.tag = "err"
    /\ stack' = Pop
    /\ envs' = IF OwnsEnv(Top) THEN DropLast(envs) ELSE envs
    /\ completed' = IF OwnsEnv(Top) THEN Append(completed, Left(Top, "error", envs'))
                                    ELSE completed
    /\ UNCHANGED <<prog, ret, out, status, evlog, births>>

\* main, lines 335-338: the result goes to stdout, an error to stderr
MainFinish ==
    /\ status = "running"
    /\ stack = <<>>
    /\ ret.tag \in {"ok", "err"}
    /\ status' = IF ret.tag = "ok" THEN "ok" ELSE "error"
    /\ out' = IF ret.tag = "ok" THEN Append(out, Render(ret.v)) ELSE out
    /\ UNCHANGED <<prog, stack, envs, ret, evlog, births, completed>>

Next ==
    \/ EvalNumber
    \/ EvalString
    \/ EvalIdentifier
    \/ EvalApplication
    \/ Apply
    \/ FuncArg
    \/ LambdaArg
    \/ LambdaReturn
    \/ EvalBlock
    \/ BlockNext
    \/ EvalCond
    \/ CondTest
    \/ CondReturn
    \/ EvalClause
    \/ EvalParameters
    \/ EvalLambda
    \/ EvalLet
    \/ LetBind
    \/ LetReturn
    \/ EvalDefine
    \/ DefineBind
    \/ Unwind
    \/ MainFinish

(***************************************************************************)
(* The decoded ASTs the evaluator is run on.                               *)
(***************************************************************************)
MaxClauses == 2

MaxArgs == 3

Id(s) == Identifier(s)

App(a) == Application(a)

Lam(ps, body) == Lambda(<<Parameters([j \in 1..Len(ps) |-> Identifier(ps[j])]), body>>)

SeqsUpTo(S, n) == UNION {[1..m -> S] : m \in 0..n}

NumE == {Number(n) : n \in Nums}

\* a Lambda evaluated under two bindings a and b of its free variable v,
\* with v rebound in the defining environment after each; then f or g is called
CaptureTwiceProgs ==
    {Block(<<Define(Id("v"), a), Define(Id("f"), Lam(<<"p">>, body)),
             Define(Id("v"), b), Define(Id("g"), Lam(<<"p">>, body)),
             Let(Id("v"), Number(7), App(<<Id(c), Number(0)>>))>>) :
        a \in NumE, b \in NumE, c \in {"f", "g"},
        body \in {Id("v"), App(<<Id("add"), Id("v"), Id("p")>>)}}

\* the free variable is unbound when the Lambda is evaluated and bound after
CaptureUnboundProgs ==
    {Block(<<Define(Id("f"), Lam(<<>>, Id("z"))), Define(Id("z"), a), App(<<Id("f")>>)>>) :
        a \in NumE}

\* the body rebinds a variable of the caller
CaptureShadowProgs ==
    {Let(Id("f"), Lam(<<"p">>, Block(<<Define(Id("v"), Id("p")), Id("v")>>)),
         Let(Id("v"), a, Block(<<App(<<Id("f"), b>>), Id("v")>>))) :
        a \in NumE, b \in NumE}

CaptureProgs == CaptureTwiceProgs \cup CaptureUnboundProgs \cup CaptureShadowProgs

\* the closure held in f applied again and again
RepeatProgs ==
    {Block(<<Define(Id("f"), Lam(<<"p">>, Let(Id("z"), Id("p"), Id("q")))),
             App(<<Id("f"), a>>), App(<<Id("f"), Id(n)>>), App(<<Id("f"), Id(n)>>)>>) :
        a \in NumE, n \in {"p", "z", "x"}}
    \cup {Block(<<Define(Id("f"), Lam(<<>>, Id("x"))), App(<<Id("f")>>), App(<<Id("f")>>)>>)}

\* arguments and bodies that bind, print or fail
SideEffectProgs ==
    {Block(<<Define(Id("f"), Lam(<<"p">>, Let(Id("x"), a, body))),
             App(<<Id("f"), arg>>), Id("x"), Id("z"), Id("p")>>) :
        a \in NumE,
        arg \in {Define(Id("z"), Number(1)), Let(Id("x"), Number(2), Id("x")), Number(0)},
        body \in {Define(Id("z"), Id("p")), App(<<Id("div"), Id("x"), Number(0)>>)}}
    \cup {Block(<<Define(Id("f"), Lam(<<"p">>, Define(Id("x"), Id("p")))),
                  Cond(<<Clause(<<App(<<Id("zero?"), App(<<Id("f"), a>>)>>), Id("x")>>)>>)>>) :
            a \in NumE}

\* the second argument names the first parameter
ArgSeesParamProgs ==
    {App(<<Lam(<<"p", "q">>, App(<<Id("add"), Id("p"), Id("q")>>)), a, Id("p")>>) : a \in NumE}

\* the second argument names z, bound by the caller after f was made, the
\* first parameter p, or x, bound before f was made
ArgSeesNameProgs ==
    {Block(<<Define(Id("f"), Lam(<<"p", "q">>, Id("q"))), Define(Id("z"), a),
             App(<<Id("f"), b, Id(n)>>)>>) :
        a \in NumE, b \in NumE, n \in {"z", "p", "x"}}

ArgOrderProgs ==
    ArgSeesParamProgs \cup ArgSeesNameProgs
    \cup {App(<<Lam(<<"p", "q", "r">>, Id("r")), a, Define(Id("p"), Number(9)), Id("p")>>) :
            a \in NumE}
    \cup {App(<<Lam(<<"p", "p">>, Id("p")), a, App(<<Id("add"), Id("p"), Number(1)>>)>>) :
            a \in NumE}

CondTests ==
    {Id("true"), String("true"), Id("false"), String("True"), Number(1),
     App(<<Id("div"), Number(1), Number(0)>>), App(<<Id("print"), Number(5)>>)}
    \cup {App(<<Id("zero?"), a>>) : a \in NumE}

ClauseOf(t, j) == Clause(<<t, App(<<Id("print"), Number(j)>>)>>)

\* Conds of up to MaxClauses clauses; clause j prints j when chosen
CondChainProgs ==
    {Cond([j \in 1..Len(ts) |-> ClauseOf(ts[j], j)]) : ts \in SeqsUpTo(CondTests, MaxClauses)}

CondProgs ==
    CondChainProgs
    \cup {Cond(<<ClauseOf(Id("false"), 1), bad, ClauseOf(Id("true"), 3)>>) :
            bad \in {Number(0), Clause(<<Id("true")>>), Clause(<<>>),
                     Clause(<<Id("true"), Number(1), Number(2)>>)}}
    \cup {Block(<<Cond(<<Clause(<<Define(Id("z"), String("true")), Number(1)>>),
                         Clause(<<Id("z"), a>>)>>), Id("z")>>) : a \in NumE}

\* Let(x, a, Let(x, b, x))
LetNestedProgs ==
    {Let(Id("x"), a, Let(Id("x"), b, Id("x"))) : a \in NumE, b \in NumE}

\* the name is read by the next child of the Block, after the Lets finished
LetThenReadProgs ==
    {Block(<<Let(Id(n), a, Let(Id(n), b, Number(0))), Id(n)>>) :
        a \in NumE, b \in NumE, n \in {"x", "z"}}

LetProgs ==
    LetNestedProgs \cup LetThenReadProgs
    \cup {Block(<<Let(Id("z"), a, Define(Id("x"), Id("z"))), App(<<Id("add"), Id("x"), Id("z")>>)>>) :
            a \in NumE}
    \cup {Let(a, Number(0), Number(1)) : a \in NumE}
    \cup {Define(a, Number(0)) : a \in NumE}

ArityArgs == {App(<<Id("print"), Number(1)>>), Define(Id("z"), Number(1)), Number(0)}

ArityCallees ==
    {Id("add"), Id("print"), String("zero?"), Lam(<<>>, Number(0)), Lam(<<"p">>, Id("p")),
     Lam(<<"p", "q">>, Id("z"))}

\* every callee applied to 0..MaxArgs arguments that print or bind
ArityProgs ==
    {App(<<c>> \o args) : c \in ArityCallees, args \in SeqsUpTo(ArityArgs, MaxArgs)}

DispatchCallees ==
    {Id("add"), String("add"), Id("foo"), Number(1), Id("x"),
     Let(Id("z"), String("add"), Id("z")),
     Let(Id("sub"), String("add"), Id("sub")),
     Let(Id("add"), Lam(<<"p", "q">>, Id("q")), Id("add")),
     Let(Id("add"), Number(3), Id("add")),
     Let(Id("add"), String("sub"), Id("add")),
     Let(Id("z"), App(<<Id("zero?"), Number(0)>>), Id("z")),
     Lam(<<"p", "q">>, Id("p"))}

DispatchTripleProgs ==
    {App(<<c, a, b>>) : c \in DispatchCallees, a \in NumE, b \in NumE}

DispatchProgs ==
    DispatchTripleProgs
    \cup {App(<<Id(op), a, b>>) : op \in BuiltinNames, a \in NumE, b \in NumE \cup {String("s")}}
    \cup {App(<<Id(op), a>>) : op \in {"zero?", "print"}, a \in NumE \cup {String("s"), Lam(<<>>, Number(0))}}

\* malformed trees, nested closures and attempts at recursion
MiscProgs ==
    {App(<<>>), Block(<<>>), Clause(<<Number(0), Number(1)>>), Parameters(<<Id("p")>>),
     Lambda(<<Parameters(<<>>)>>), Lambda(<<Number(0), Number(1)>>),
     Lambda(<<Parameters(<<Number(0)>>), Number(1)>>),
     Block(<<Number(1), App(<<>>)>>),
     App(<<Id("add"), Number(1), App(<<>>)>>),
     App(<<Lam(<<"x">>, App(<<Id("x"), Id("x")>>)), Lam(<<"x">>, App(<<Id("x"), Id("x")>>))>>),
     Let(Id("f"), Lam(<<>>, App(<<Id("f")>>)), App(<<Id("f")>>)),
     Block(<<Define(Id("f"), Lam(<<>>, App(<<Id("f")>>))),
             Define(Id("f"), Lam(<<>>, App(<<Id("f")>>))), App(<<Id("f")>>)>>),
     App(<<Id("pow"), Number(2), App(<<Id("sub"), Number(0), Number(1)>>)>>),
     App(<<Id("div"), App(<<Id("sub"), Number(0), Number(7)>>), Number(2)>>)}
    \cup {App(<<App(<<Lam(<<"p">>, Lam(<<"q">>, App(<<Id("add"), Id("p"), Id("q")>>))), a>>), b>>) :
            a \in NumE, b \in NumE}

GenAtoms == {Number(0), Id("x"), Id("f"), String("add")}

\* every expression with one node above atoms
Gen1 ==
    GenAtoms
    \cup {App(<<a, b>>) : a \in GenAtoms, b \in GenAtoms}
    \cup {Lam(<<"f">>, a) : a \in GenAtoms}
    \cup {Lam(<<>>, a) : a \in GenAtoms}
    \cup {Let(Id("f"), a, b) : a \in GenAtoms, b \in GenAtoms}
    \cup {Define(Id("x"), a) : a \in GenAtoms}
    \cup {Block(<<a, b>>) : a \in GenAtoms, b \in GenAtoms}
    \cup {Cond(<<Clause(<<a, b>>)>>) : a \in GenAtoms, b \in GenAtoms}

\* every application and every Let of two such expressions, and every closure
\* over one of them applied twice
GenProgs ==
    {App(<<c, a>>) : c \in Gen1, a \in Gen1}
    \cup {Let(Id("f"), v, b) : v \in Gen1, b \in Gen1}
    \cup {Block(<<Define(Id("f"), Lam(<<"x">>, g)), App(<<Id("f"), a>>), App(<<Id("f"), b>>)>>) :
            g \in Gen1, a \in GenAtoms, b \in GenAtoms}

Programs ==
    CaptureProgs \cup RepeatProgs \cup SideEffectProgs \cup ArgOrderProgs \cup CondProgs
    \cup LetProgs \cup ArityProgs \cup DispatchProgs \cup MiscProgs \cup GenProgs

Init == \E p \in Programs : Start(p)

Spec == Init /\ [][Next]_vars

\* the evaluator is one sequential thread: a step that can be taken is taken
FairSpec == Spec /\ WF_vars(Next)

(***************************************************************************)
(* Properties.                                                             *)
(***************************************************************************)
\* the running closure applications, by stack position
LambdaFrames == {j \in 1..Len(stack) : OwnsEnv(stack[j])}

\* the Lambda expression of clo was evaluated in the environment env
BornIn(clo, env) == [params |-> clo.params, body |-> clo.body, env |-> env] \in births

\* C1: a closure application starts from the environment in which its Lambda
\* expression was evaluated, whatever was bound in the defining environment
\* since: of the two closures made from one Lambda under v = a and v = b, with
\* v rebound to 7 before the call, f's body sees a and g's sees b; a variable
\* unbound at the Lambda still reads as its own name after it was bound.
C1_CaptureAtDefinition ==
    /\ \A j \in LambdaFrames : BornIn(stack[j].clo, stack[j].env0)
    /\ (status # "running" /\ prog \in CaptureTwiceProgs) =>
          ret = Ok(NumberV((IF prog.a[5].body.a[1].s = "f" THEN prog.a[1].value
                                                           ELSE prog.a[3].value).n))
    /\ (status # "running" /\ prog \in CaptureUnboundProgs) => ret = Ok(StringV("z"))

\* the body of a running closure reads v while the caller's v differs
C1_Witness ==
    /\ prog \in CaptureTwiceProgs
    /\ Running /\ ret = NoRet /\ Top.op = "eval" /\ Top.e = Id("v")
    /\ \E j \in LambdaFrames :
          /\ stack[j].op = "lambda_body" /\ Top.env = stack[j].env
          /\ envs[stack[j].caller]["v"] # envs[stack[j].env]["v"]

\* record i of completed is an earlier application of the closure that frame
\* j applies: the same variable of the same env was read for both, and the
\* Lambda expression was evaluated in one environment only
SameClosureHeld(j, i) ==
    /\ stack[j].calleeExpr.k = "Identifier"
    /\ completed[i].calleeExpr = stack[j].calleeExpr
    /\ completed[i].caller = stack[j].caller
    /\ completed[i].clo.params = stack[j].clo.params
    /\ completed[i].clo.body = stack[j].clo.body
    /\ Cardinality({b \in births : b.params = stack[j].clo.params
                                   /\ b.body = stack[j].clo.body}) = 1

\* C2 as stated: the names a call of the closure held in f inserted into its
\* captured environment are bound when a later application of f starts.
C2_BindingsPersist ==
    \A j \in LambdaFrames : \A i \in 1..Len(completed) :
        (SameClosureHeld(j, i) /\ completed[i].how = "value") =>
            \A n \in (DOMAIN completed[i].final) \ (DOMAIN completed[i].env0) :
                n \in DOMAIN stack[j].env0

\* C2 amended: every application of the closure held in f starts from the same
\* captured environment as the applications of f before it; what a call
\* inserted is dropped with the call.
C2_FreshCopyPerCall ==
    \A j \in LambdaFrames : \A i \in 1..Len(completed) :
        SameClosureHeld(j, i) => stack[j].env0 = completed[i].env0

\* a second application of f runs after a first one that bound something
C2_Witness ==
    \E j \in LambdaFrames : \E i \in 1..Len(completed) :
        /\ SameClosureHeld(j, i)
        /\ completed[i].how = "value"
        /\ (DOMAIN completed[i].final) \ (DOMAIN completed[i].env0) # {}

\* C3: while a closure application runs, and when it has returned with a value
\* or an error, every Env that was alive when the callee had been evaluated
\* (the caller's among them) is as it was then.
C3_CallerEnvUntouched ==
    /\ \A j \in LambdaFrames : SubSeq(envs, 1, stack[j].env - 1) = stack[j].snap
    /\ \A i \in 1..Len(completed) : completed[i].after = completed[i].snap

\* a returned application had bound z, which its caller does not know
C3_Witness ==
    \E i \in 1..Len(completed) :
        /\ completed[i].how = "value"
        /\ "z" \in DOMAIN completed[i].final
        /\ "z" \notin DOMAIN completed[i].after[completed[i].caller]

\* the evaluation of an argument of a closure application is about to start
ArgStarting ==
    /\ Running /\ ret = NoRet /\ Len(stack) >= 2
    /\ Top.op = "eval" /\ stack[Len(stack) - 1].op = "lambda_args"

CondFrames == {j \in 1..Len(stack) : stack[j].op \in {"cond_test", "cond_conseq", "cond_end"}}

\* the expressions whose evaluation frame j started itself, in order
ChildEvals(j) ==
    LET kids == SelectSeq(SubSeq(evlog, stack[j].log0 + 1, Len(evlog)),
                          LAMBDA ev : ev.d = j + 1)
    IN [i \in 1..Len(kids) |-> kids[i].e]

\* frame j has pushed an evaluation that has not started yet
ChildPending(j) == j + 1 = Len(stack) /\ Top.op = "eval"

Conditions(all, n) == [i \in 1..n |-> all[i].a[1]]

NoneTrue(rends) == \A i \in 1..Len(rends) : rends[i] # "true"

\* what the Cond at frame j has evaluated, against what its clauses say
CondInOrder(j) ==
    LET F == stack[j]
        pending == IF ChildPending(j) THEN 1 ELSE 0
        due == IF F.op = "cond_test" THEN Conditions(F.all, F.n + 1)
               ELSE IF F.op = "cond_conseq"
               THEN Conditions(F.all, F.n + 1) \o <<F.all[F.n + 1].a[2]>>
               ELSE Conditions(F.all, F.n)
    IN /\ ChildEvals(j) = SubSeq(due, 1, Len(due) - pending)
       /\ NoneTrue(SubSeq(F.rends, 1, F.n))
       /\ Len(F.rends) = IF F.op = "cond_conseq" THEN F.n + 1 ELSE F.n
       /\ F.op = "cond_conseq" => F.rends[F.n + 1] = "true"
       /\ F.op = "cond_end" => ret.tag = "err"
       /\ (F.op = "cond_end" /\ j = Len(stack)) => (ret.e = "No true clause" <=> F.n = Len(F.all))

\* the rendering of condition t of CondTests, "!" for the one that fails
StaticRend(t) ==
    CASE t.k = "Number" -> ToString(t.n)
      [] t.k \in {"Identifier", "String"} -> t.s
      [] t.a[1] = Id("zero?") -> IF t.a[2].n = 0 THEN "true" ELSE "false"
      [] t.a[1] = Id("print") -> "0"
      [] t.a[1] = Id("div") -> "!"

\* the first clause of a CondChainProgs program whose condition is true or
\* fails, or one past the last clause
FirstStop(cs) ==
    LET stops == {j \in 1..Len(cs) : StaticRend(cs[j].a[1]) \in {"true", "!"}}
    IN IF stops = {} THEN Len(cs) + 1 ELSE CHOOSE j \in stops : \A i \in stops : j <= i

\* what the conditions before clause k print (one of CondTests prints 5)
PrintedBefore(cs, k) ==
    LET ps == SelectSeq([j \in 1..(k - 1) |-> cs[j].a[1]],
                        LAMBDA t : t.k = "Application" /\ t.a[1] = Id("print"))
    IN [i \in 1..Len(ps) |-> "5"]

\* C5: a Cond evaluates the conditions of its clauses in order, once each, up
\* to the first that renders as "true", then that clause's consequence, whose
\* result is the Cond's, and nothing else of its clauses; when every clause
\* was passed over it fails with "No true clause".  (Clause j of a chain
\* program prints j: stdout shows which conditions and consequence ran.)
C5_CondInOrder ==
    /\ \A j \in CondFrames : CondInOrder(j)
    /\ (status # "running" /\ prog \in CondChainProgs) =>
          LET k == FirstStop(prog.a)
              before == PrintedBefore(prog.a, k)
          IN IF k > Len(prog.a)
             THEN ret = Err("No true clause") /\ out = before
             ELSE IF StaticRend(prog.a[k].a[1]) = "!"
             THEN ret = Err("Division by zero") /\ out = before
             ELSE ret = Ok(NumberV(0)) /\ out = before \o <<ToString(k), "0">>

\* the consequence of a second clause returned after the first was passed over
C5_Witness ==
    /\ Running /\ ret.tag = "ok" /\ Top.op = "cond_conseq"
    /\ Top.n >= 1
    /\ prog \in CondChainProgs

\* C6: Let binds the name in the env it was given: Let(x, a, Let(x, b, x)) is
\* b, and after the Lets have finished the next child of the enclosing Block
\* reads b under the name and the env still holds it.
C6_LetBindsInPlace ==
    /\ \A j \in 1..Len(stack) :
          stack[j].op = "let_body" => stack[j].name \in DOMAIN envs[stack[j].env]
    /\ (status # "running" /\ prog \in LetNestedProgs) =>
          ret = Ok(NumberV(prog.body.value.n))
    /\ (status # "running" /\ prog \in LetThenReadProgs) =>
          /\ ret = Ok(NumberV(prog.a[1].body.value.n))
          /\ envs[1][prog.a[2].s] = NumberV(prog.a[1].body.value.n)

\* a Block read the inner Let's value, which differs from the outer Let's
C6_Witness ==
    /\ status = "ok"
    /\ prog \in LetThenReadProgs
    /\ prog.a[1].value # prog.a[1].body.value

\* the declared arity of a callee of ArityCallees
StaticArity(c) == IF c.k = "Lambda" THEN Len(c.a[1].a) ELSE BuiltinArity[c.s]

ArityOff(p) == Len(p.a) - 1 # StaticArity(p.a[1])

\* C7: no argument is evaluated for a call whose argument count is not the
\* arity: every running builtin or closure application was given as many
\* arguments as it declares, and a program applying a callee to a wrong
\* number of printing or binding arguments ends in "Expected n arguments"
\* having evaluated the Application and its callee only, printed nothing and
\* bound nothing.
C7_ArityFirst ==
    /\ \A j \in 1..Len(stack) :
          /\ stack[j].op = "func_args" =>
                Len(stack[j].vals) + 1 + Len(stack[j].rest) = BuiltinArity[stack[j].name]
          /\ OwnsEnv(stack[j]) => Len(stack[j].given) = Len(stack[j].clo.params)
    /\ (prog \in ArityProgs /\ ArityOff(prog)) =>
          /\ out = <<>>
          /\ envs[1] = InitializeVars
          /\ Len(evlog) <= 2
          /\ status # "ok"
          /\ ret.tag = "err" => ret.e = ExpectedMsg(StaticArity(prog.a[1]))
          /\ status # "running" => ret.tag = "err"

\* a call with a binding argument too many or too few has failed
C7_Witness ==
    /\ status = "error"
    /\ prog \in ArityProgs /\ ArityOff(prog)
    /\ Len(prog.a) >= 2
    /\ prog.a[2] = Define(Id("z"), Number(1))

\* what applying callee c of DispatchCallees to the numbers a and b gives
DispatchExpected(c, a, b) ==
    CASE c \in {Id("add"), String("add"), Let(Id("z"), String("add"), Id("z")),
                Let(Id("sub"), String("add"), Id("sub"))} -> Ok(NumberV(a + b))
      [] c = Let(Id("add"), String("sub"), Id("add")) -> Ok(NumberV(a - b))
      [] c = Let(Id("add"), Lam(<<"p", "q">>, Id("q")), Id("add")) -> Ok(NumberV(b))
      [] c = Lam(<<"p", "q">>, Id("p")) -> Ok(NumberV(a))
      [] OTHER -> Err("Not a function")

\* C8: the builtin applied is the one named by the rendering of the callee
\* value: add for the unbound identifier add, the string "add" and variables z
\* and sub holding "add"; sub for the variable add holding "sub"; and a callee
\* value that renders as no builtin name is applied itself, the closure bound
\* to add being called and the number bound to add failing as not a function.
C8_DispatchByRendering ==
    /\ \A j \in 1..Len(stack) :
          stack[j].op = "func_args" => stack[j].name = Render(stack[j].func)
    /\ \A j \in LambdaFrames : Render(stack[j].clo) \notin BuiltinNames
    /\ (status # "running" /\ prog \in DispatchTripleProgs) =>
          ret = DispatchExpected(prog.a[1], prog.a[2].n, prog.a[3].n)

\* the variable sub, holding the string "add", was applied and added
C8_Witness ==
    /\ status = "ok"
    /\ prog \in DispatchTripleProgs
    /\ prog.a[1] = Let(Id("sub"), String("add"), Id("sub"))
    /\ prog.a[2] # prog.a[3]

\* C9 as stated: every evaluation eventually finishes with a value or an error.
C9_FinishesWithResult == <>(status \in {"ok", "error"})

\* every evaluation eventually stops: with a value, an error or a panic
Terminates == <>(status # "running")

\* C10 as stated: the evaluator never ends but by returning a value or an
\* error to main.
C10_NeverAborts == status # "panicked"

====
